---- MODULE Spec2Model ----
(***************************************************************************)
(* The useWebSocket hook of the exoskeleton dashboard                      *)
(* (frontend/src/hooks/useWebSocket.ts): the React state it owns, the      *)
(* effect that constructs a WebSocket per address, the four handlers it    *)
(* assigns to that WebSocket and the effect cleanup.                       *)
(*                                                                         *)
(* The WebSocket objects themselves are the platform's.  They follow the   *)
(* WHATWG WebSocket interface: readyState goes CONNECTING -> OPEN ->       *)
(* CLOSING -> CLOSED; a message event is delivered only while OPEN; when   *)
(* the connection is closed the ready state becomes CLOSED and, in the     *)
(* same task, an error event (if the connection failed) and then a close   *)
(* event are fired; close() on a CONNECTING socket fails the connection.   *)
(* A handler assigned to a WebSocket stays assigned until it is replaced.  *)
(* Every step of the model is one invocation of one callback (or one       *)
(* handler-free change of a socket's ready state).                         *)
(***************************************************************************)
EXTENDS Integers, Sequences, FiniteSets, TLC

\* Number of WebSocket objects one hook instance may construct.
MaxTransports == 3
\* Largest whole number of hours of an uptime that is formatted.
MaxHours == 24
VARIABLES
    telemetry,        \* useState<TelemetryData | null>
    connectionState,  \* useState<ConnectionState>
    error,            \* useState<string | null>
    wsRef,            \* useRef<WebSocket | null>: 0 is null, else an index of ws
    url,              \* the url argument of the latest render
    phase,            \* "rendered" | "mounted" | "unmounted" | "crashed"
    ws,               \* every WebSocket constructed so far, in order
    tornDown,         \* indices of ws whose effect cleanup has run
    openedFrom,       \* connectionState when the latest effect ran
    dropped,          \* a message of the latest WebSocket failed to parse
    sessionError,     \* an error event ran since the latest effect ran
    lastValid,        \* the latest complete TelemetryData a message carried
    render,           \* one evaluation of a derived-state function of App
    lastStep          \* the callback that ran last

hookVars ==
    <<telemetry, connectionState, error, wsRef, url, phase, ws, tornDown,
      openedFrom, dropped, sessionError, lastValid, lastStep>>

vars ==
    <<telemetry, connectionState, error, wsRef, url, phase, ws, tornDown,
      openedFrom, dropped, sessionError, lastValid, render, lastStep>>

----------------------------------------------------------------------------
(* Values *)

ConnectionState == {"connecting", "connected", "disconnected", "error"}

\* The null of error: string | null.
NoError == "null"
ErrorMessage == "WebSocket connection error"

JOINT_NAMES == {"left_hip", "left_knee", "right_hip", "right_knee"}

\* A decoded JSON value: null, or an object with a sequence number and the
\* joint identifiers it has entries for.
Null == [kind |-> "null", sequence |-> 0, joints |-> {}]
Frame(s, js) == [kind |-> "object", sequence |-> s, joints |-> js]

\* The TelemetryData shape: all four joints present.
TelemetryData(v) == v.kind = "object" /\ v.joints = JOINT_NAMES

\* The decoded values of the frames the server sends here: null, two complete
\* frames and one frame without its right_knee entries.
Values ==
    {Null, Frame(1, JOINT_NAMES), Frame(2, JOINT_NAMES),
     Frame(2, JOINT_NAMES \ {"right_knee"})}

\* The values that are a complete TelemetryData.
ValidFrames == {v \in Values : TelemetryData(v)}

\* JSON text is a sequence of tokens.
Encode(v) ==
    IF v.kind = "null" THEN <<"null">>
    ELSE <<"{", "sequence", v.sequence, "joints", v.joints, "}">>

\* A text cut off before its closing brace.
Truncate(t) == SubSeq(t, 1, Len(t) - 1)

WellFormedTexts == {Encode(v) : v \in Values}
MalformedTexts == {Truncate(Encode(Frame(1, JOINT_NAMES)))}
Texts == WellFormedTexts \cup MalformedTexts
NoText == <<>>

\* JSON.parse: the decoded value, or a SyntaxError.
JSONParse(t) ==
    IF t = <<"null">> THEN [threw |-> FALSE, value |-> Null]
    ELSE IF Len(t) = 6 /\ t[1] = "{" /\ t[6] = "}"
         THEN [threw |-> FALSE, value |-> Frame(t[3], t[5])]
         ELSE [threw |-> TRUE, value |-> Null]

Urls == {"ws://localhost:8000/ws", "ws://localhost:8080/ws", "not a url"}
\* new WebSocket(url) throws a SyntaxError on a url it cannot parse.
ValidURL(u) == u # "not a url"

Step(k, i, t) == [kind |-> k, ws |-> i, text |-> t]

\* No derived-state function has been evaluated.
NoRender == [fn |-> "none", input |-> 0, done |-> FALSE, output |-> <<>>]

----------------------------------------------------------------------------
(* The platform's WebSocket *)

NewWebSocket(u) ==
    [readyState |-> "CONNECTING",
     mustFail |-> FALSE,      \* the connection was failed: an error event is due
     closePending |-> FALSE,  \* the error event was fired, the close event is next
     closeCalls |-> 0]        \* calls of close() on this object

\* ws.close()
Close(w) ==
    IF w.readyState = "CONNECTING"
    THEN [w EXCEPT !.readyState = "CLOSING", !.mustFail = TRUE, !.closeCalls = @ + 1]
    ELSE IF w.readyState = "OPEN"
         THEN [w EXCEPT !.readyState = "CLOSING", !.closeCalls = @ + 1]
         ELSE [w EXCEPT !.closeCalls = @ + 1]

\* An error event has been fired and its close event, fired in the same
\* task, has not been yet: nothing else runs in between.
PendingClose == \E i \in 1..Len(ws) : ws[i].closePending

----------------------------------------------------------------------------
(* The hook *)

\* A state setter of an unmounted component changes nothing.
SetState(new, old) == IF phase = "mounted" THEN new ELSE old

\* ws.onmessage with a catch block that blanks the snapshot.
OnMessageTelemetry_BlankOnThrow(tel, t) ==
    LET r == JSONParse(t) IN IF r.threw THEN Null ELSE r.value

\* ws.onmessage: the value handed to setTelemetry, or the held value when
\* JSON.parse throws.
OnMessageTelemetry(tel, t) ==
    LET r == JSONParse(t) IN IF r.threw THEN tel ELSE r.value

\* An onopen that forgets setError(null).
OnOpenError_Keep(err) == err

\* ws.onopen: the value handed to setError.
OnOpenError(err) == NoError

\* An onerror that reports only a failure of a live session.
OnErrorState_OnlyWhenLive(cs) ==
    IF cs \in {"connecting", "connected"} THEN "error" ELSE cs

\* An onerror that sets the description and leaves the state.
OnErrorState_Unchanged(cs) == cs

\* ws.onerror: the value handed to setConnectionState.
OnErrorState(cs) == "error"

\* An onclose that retains the error state.
OnCloseState_KeepError(cs) == IF cs = "error" THEN cs ELSE "disconnected"

\* ws.onclose: the value handed to setConnectionState.
OnCloseState(cs) == "disconnected"

\* An onclose that also calls setError(null).
OnCloseError_Clear(err) == NoError

\* ws.onclose: it calls no setError, the error stays as it is.
OnCloseError(err) == err

\* A cleanup that closes whatever the ready state.
ShouldClose_Always(readyState) == TRUE

\* A cleanup that forgets the CONNECTING case.
ShouldClose_OnlyOpen(readyState) == readyState = "OPEN"

\* The condition of the effect cleanup.
ShouldClose(readyState) == readyState = "OPEN" \/ readyState = "CONNECTING"

\* The effect cleanup of the effect that constructed ws[i].
Cleanup(i) ==
    IF ShouldClose(ws[i].readyState) THEN [ws EXCEPT ![i] = Close(@)] ELSE ws

\* The effect body, run on the sockets w0.
Effect(u, w0) ==
    /\ connectionState' = "connecting"
    /\ error' = NoError
    /\ openedFrom' = connectionState
    /\ dropped' = FALSE
    /\ sessionError' = FALSE
    /\ IF ValidURL(u)
       THEN /\ ws' = Append(w0, NewWebSocket(u))
            /\ wsRef' = Len(w0) + 1
            /\ phase' = "mounted"
       ELSE /\ ws' = w0
            /\ wsRef' = wsRef
            /\ phase' = "crashed"

\* First commit: the effect runs.
Mount ==
    /\ phase = "rendered"
    /\ Effect(url, ws)
    /\ lastStep' = Step("effect", 0, NoText)
    /\ UNCHANGED <<telemetry, url, tornDown, lastValid, render>>

\* A render with another url: the cleanup of the previous effect, then the effect.
ChangeAddress(u) ==
    /\ phase = "mounted"
    /\ ~PendingClose
    /\ u # url
    /\ Len(ws) < MaxTransports
    /\ url' = u
    /\ tornDown' = tornDown \cup {wsRef}
    /\ Effect(u, Cleanup(wsRef))
    /\ lastStep' = Step("effect", wsRef, NoText)
    /\ UNCHANGED <<telemetry, lastValid, render>>

\* The component unmounts: the cleanup of the last effect.
Unmount ==
    /\ phase = "mounted"
    /\ ~PendingClose
    /\ phase' = "unmounted"
    /\ tornDown' = tornDown \cup {wsRef}
    /\ ws' = Cleanup(wsRef)
    /\ lastStep' = Step("cleanup", wsRef, NoText)
    /\ UNCHANGED <<telemetry, connectionState, error, wsRef, url, openedFrom, dropped,
                   sessionError, lastValid, render>>

\* The connection of ws[i] is established: ws.onopen.
TransportOpen(i) ==
    /\ ~PendingClose
    /\ ws[i].readyState = "CONNECTING"
    /\ ws' = [ws EXCEPT ![i].readyState = "OPEN"]
    /\ connectionState' = SetState("connected", connectionState)
    /\ error' = SetState(OnOpenError(error), error)
    /\ lastStep' = Step("open", i, NoText)
    /\ UNCHANGED <<telemetry, wsRef, url, phase, tornDown, openedFrom, dropped,
                   sessionError, lastValid, render>>

\* A message arrives on ws[i]: ws.onmessage.
TransportMessage(i, t) ==
    /\ ~PendingClose
    /\ ws[i].readyState = "OPEN"
    /\ telemetry' = SetState(OnMessageTelemetry(telemetry, t), telemetry)
    /\ dropped' = (dropped \/ (i = wsRef /\ JSONParse(t).threw))
    /\ lastValid' = IF phase = "mounted" /\ t \in {Encode(v) : v \in ValidFrames}
                    THEN CHOOSE v \in ValidFrames : Encode(v) = t
                    ELSE lastValid
    /\ lastStep' = Step("message", i, t)
    /\ UNCHANGED <<connectionState, error, wsRef, url, phase, ws, tornDown, openedFrom,
                   sessionError, render>>

\* The peer starts the closing handshake of ws[i]: no event is fired.
PeerClosing(i) ==
    /\ ~PendingClose
    /\ ws[i].readyState = "OPEN"
    /\ ws' = [ws EXCEPT ![i].readyState = "CLOSING"]
    /\ lastStep' = Step("closing", i, NoText)
    /\ UNCHANGED <<telemetry, connectionState, error, wsRef, url, phase, tornDown,
                   openedFrom, dropped, sessionError, lastValid, render>>

\* The connection of ws[i] fails: ws.onerror; its close event is next.
TransportError(i) ==
    /\ ~PendingClose
    /\ ws[i].readyState \in {"CONNECTING", "OPEN", "CLOSING"}
    /\ ws' = [ws EXCEPT ![i].readyState = "CLOSED", ![i].mustFail = FALSE,
                        ![i].closePending = TRUE]
    /\ connectionState' = SetState(OnErrorState(connectionState), connectionState)
    /\ error' = SetState(ErrorMessage, error)
    /\ sessionError' = (sessionError \/ phase = "mounted")
    /\ lastStep' = Step("error", i, NoText)
    /\ UNCHANGED <<telemetry, wsRef, url, phase, tornDown, openedFrom, dropped,
                   lastValid, render>>

\* The connection of ws[i] is closed: ws.onclose.
TransportClose(i) ==
    /\ \/ ws[i].closePending
       \/ /\ ~PendingClose
          /\ ws[i].readyState \in {"OPEN", "CLOSING"}
          /\ ~ws[i].mustFail
    /\ ws' = [ws EXCEPT ![i].readyState = "CLOSED", ![i].closePending = FALSE]
    /\ connectionState' = SetState(OnCloseState(connectionState), connectionState)
    /\ error' = SetState(OnCloseError(error), error)
    /\ lastStep' = Step("close", i, NoText)
    /\ UNCHANGED <<telemetry, wsRef, url, phase, tornDown, openedFrom, dropped,
                   sessionError, lastValid, render>>

Init ==
    /\ telemetry = Null
    /\ connectionState = "disconnected"
    /\ error = NoError
    /\ wsRef = 0
    /\ url \in Urls
    /\ phase = "rendered"
    /\ ws = <<>>
    /\ tornDown = {}
    /\ openedFrom = "disconnected"
    /\ dropped = FALSE
    /\ sessionError = FALSE
    /\ lastValid = Null
    /\ render = NoRender
    /\ lastStep = Step("render", 0, NoText)

Next ==
    \/ Mount
    \/ \E u \in Urls : ChangeAddress(u)
    \/ Unmount
    \/ \E i \in 1..Len(ws) : TransportOpen(i)
    \/ \E i \in 1..Len(ws), t \in Texts : TransportMessage(i, t)
    \/ \E i \in 1..Len(ws) : PeerClosing(i)
    \/ \E i \in 1..Len(ws) : TransportError(i)
    \/ \E i \in 1..Len(ws) : TransportClose(i)

Spec == Init /\ [][Next]_vars

----------------------------------------------------------------------------
(* The derived state App computes from a snapshot.  A number with one       *)
(* decimal (3661.9 seconds, 50.1 percent, 60.0 degrees) is held as its count *)
(* of tenths, so seconds / 3600 is tenths \div 36000 and seconds % 60 is     *)
(* tenths % 600.                                                             *)

\* Number.prototype.toString of a non-negative integer: its decimal digits.
RECURSIVE Digits(_)
Digits(n) == IF n < 10 THEN <<n>> ELSE Append(Digits(n \div 10), n % 10)

\* padStart(2, '0') of a digit string.
PadStart2(d) == IF Len(d) < 2 THEN <<0>> \o d ELSE d

\* A formatUptime that rounds the seconds instead of truncating them.
formatUptime_Rounding(seconds) ==
    LET hours == seconds \div 36000
        minutes == (seconds % 36000) \div 600
        secs == ((seconds % 600) + 5) \div 10
    IN  <<PadStart2(Digits(hours)), PadStart2(Digits(minutes)), PadStart2(Digits(secs))>>

\* formatUptime: the three fields that the template joins with ":".
formatUptime(seconds) ==
    LET hours == seconds \div 36000
        minutes == (seconds % 36000) \div 600
        secs == (seconds % 600) \div 10
    IN  <<PadStart2(Digits(hours)), PadStart2(Digits(minutes)), PadStart2(Digits(secs))>>

\* A getBatteryColor whose first comparison is >=.
getBatteryColor_Inclusive(percentage) ==
    IF percentage >= 500 THEN "text-green-400"
    ELSE IF percentage > 200 THEN "text-yellow-400"
    ELSE "text-red-400"

\* getBatteryColor: the class of the battery text.
getBatteryColor(percentage) ==
    IF percentage > 500 THEN "text-green-400"
    ELSE IF percentage > 200 THEN "text-yellow-400"
    ELSE "text-red-400"

\* The class of the battery bar.
batteryBarColor(percentage) ==
    IF percentage > 500 THEN "bg-green-500"
    ELSE IF percentage > 200 THEN "bg-yellow-500"
    ELSE "bg-red-500"

\* A temperature class whose first comparison is >=.
motorTemperatureColor_Inclusive(temperature) ==
    IF temperature >= 600 THEN "text-red-400"
    ELSE IF temperature > 500 THEN "text-yellow-400"
    ELSE ""

\* The class of a motor's temperature.
motorTemperatureColor(temperature) ==
    IF temperature > 600 THEN "text-red-400"
    ELSE IF temperature > 500 THEN "text-yellow-400"
    ELSE ""

\* The uptimes formatted: every tenth of a second of the minutes and seconds
\* around the field boundaries, for every hour up to MaxHours and for hours of
\* two and three digits.
BoundaryUnits == {0, 1, 9, 10, 59}
UptimeInputs ==
    {h * 36000 + m * 600 + sec * 10 + f :
        h \in (0..MaxHours) \cup {99, 100}, m \in BoundaryUnits,
        sec \in BoundaryUnits, f \in 0..9}

\* battery_percentage: 0.0 .. 100.0
BatteryInputs == 0..1000

\* motor temperature: 0.0 .. 120.0
TemperatureInputs == 0..1200

Pending(f, x) == [fn |-> f, input |-> x, done |-> FALSE, output |-> <<>>]

RenderInputs ==
    {Pending("formatUptime", x) : x \in UptimeInputs}
        \cup {Pending("battery", x) : x \in BatteryInputs}
        \cup {Pending("motorTemperature", x) : x \in TemperatureInputs}

\* App renders the uptime.
FormatUptimeRender ==
    /\ render.fn = "formatUptime" /\ ~render.done
    /\ render' = [render EXCEPT !.done = TRUE, !.output = formatUptime(render.input)]
    /\ UNCHANGED hookVars

\* App renders the battery text and the battery bar.
BatteryRender ==
    /\ render.fn = "battery" /\ ~render.done
    /\ render' = [render EXCEPT !.done = TRUE,
                     !.output = <<getBatteryColor(render.input),
                                  batteryBarColor(render.input)>>]
    /\ UNCHANGED hookVars

\* App renders a motor's temperature.
MotorTemperatureRender ==
    /\ render.fn = "motorTemperature" /\ ~render.done
    /\ render' = [render EXCEPT !.done = TRUE,
                     !.output = <<motorTemperatureColor(render.input)>>]
    /\ UNCHANGED hookVars

MapperInit ==
    /\ telemetry = Null
    /\ connectionState = "disconnected"
    /\ error = NoError
    /\ wsRef = 0
    /\ url = "ws://localhost:8000/ws"
    /\ phase = "rendered"
    /\ ws = <<>>
    /\ tornDown = {}
    /\ openedFrom = "disconnected"
    /\ dropped = FALSE
    /\ sessionError = FALSE
    /\ lastValid = Null
    /\ lastStep = Step("render", 0, NoText)
    /\ render \in RenderInputs

MapperNext ==
    \/ FormatUptimeRender
    \/ BatteryRender
    \/ MotorTemperatureRender

MapperSpec == MapperInit /\ [][MapperNext]_vars

----------------------------------------------------------------------------
(* Properties *)

TransportEvents == {"open", "message", "error", "close"}

\* The value a well-formed text encodes.
Decoded(t) == CHOOSE v \in Values : Encode(v) = t

\* C1: after the effect cleanup of a WebSocket has run, no open, message,
\* error or close event of that WebSocket changes connectionState, error or
\* telemetry.
C1_TornDownTransportIsSilent ==
    [][(lastStep'.kind \in TransportEvents /\ lastStep'.ws \in tornDown)
          => UNCHANGED <<connectionState, error, telemetry>>]_vars

\* C2: while the hook is mounted, connectionState = connected implies that
\* the WebSocket the hook owns is open (its connection established and not yet
\* closed), and connectionState in {disconnected, error} implies that it is
\* not open.
C2_StateMatchesTransport ==
    phase = "mounted" =>
        /\ connectionState = "connected" =>
               ws[wsRef].readyState \in {"OPEN", "CLOSING"}
        /\ connectionState \in {"disconnected", "error"} =>
               ws[wsRef].readyState # "OPEN"

\* C3: after the effect is re-run from disconnected or error, connectionState
\* is connected for as long as the WebSocket it constructed is open.
C3_ReopenRecovers ==
    (/\ phase = "mounted"
     /\ wsRef >= 2
     /\ openedFrom \in {"disconnected", "error"}
     /\ ws[wsRef].readyState = "OPEN") => connectionState = "connected"

AllowedTransitions ==
    {<<"connecting", "connected">>, <<"connected", "disconnected">>,
     <<"connecting", "error">>, <<"connected", "error">>,
     <<"error", "disconnected">>}

\* C4: within one session (the hook mounted, the same WebSocket owned before
\* and after the step) every change of connectionState is one of the five
\* transitions of the state machine.
C4_OnlySpecTransitions ==
    [][(/\ phase = "mounted" /\ phase' = "mounted"
        /\ wsRef' = wsRef
        /\ connectionState' # connectionState)
          => <<connectionState, connectionState'>> \in AllowedTransitions]_vars

\* C5: before the first transport event the connectionState the hook returns
\* is connecting.
C5_InitiallyConnecting ==
    (lastStep.kind \in {"render", "effect"} /\ Len(ws) <= 1 /\ phase # "crashed")
        => connectionState = "connecting"

\* A text that is JSON but not a TelemetryData.
StructurallyInvalid(t) ==
    t \in WellFormedTexts /\ ~TelemetryData(Decoded(t))

\* C6: a message that is valid JSON but not a complete TelemetryData leaves
\* telemetry and error as they were.
C6_InvalidFrameIsRejected ==
    [][(lastStep'.kind = "message" /\ StructurallyInvalid(lastStep'.text))
          => UNCHANGED <<telemetry, error>>]_vars

\* C7: a message that is not well-formed JSON leaves telemetry,
\* connectionState and error unchanged, does not end the hook or the session
\* (the WebSocket stays open), and a well-formed message that arrives on the
\* same session after it is still stored.
C7_MalformedFrameIsAbsorbed ==
    [][/\ (lastStep'.kind = "message" /\ lastStep'.text \in MalformedTexts) =>
              /\ UNCHANGED <<telemetry, connectionState, error, phase, wsRef, tornDown>>
              /\ ws'[lastStep'.ws].readyState = "OPEN"
       /\ (/\ lastStep'.kind = "message"
           /\ lastStep'.text \in WellFormedTexts
           /\ lastStep'.ws = wsRef /\ phase = "mounted"
           /\ dropped) => telemetry' = Decoded(lastStep'.text)]_vars

\* A complete frame is held, a malformed message arrived after it and was
\* dropped, and the next complete frame of the same session has replaced it.
C7_Witness ==
    /\ phase = "mounted"
    /\ dropped
    /\ lastStep.kind = "message"
    /\ lastStep.text = Encode(Frame(2, JOINT_NAMES))
    /\ telemetry = Frame(2, JOINT_NAMES)

\* C8: the effect never throws: when constructing the WebSocket fails, the
\* hook lives on with connectionState = error.
C8_OpenNeverThrows ==
    (lastStep.kind = "effect" /\ ~ValidURL(url))
        => (phase # "crashed" /\ connectionState = "error")

\* C9: a teardown calls close() on its WebSocket if and only if that
\* WebSocket is CONNECTING or OPEN, which moves it to CLOSING; on a CLOSING
\* or CLOSED WebSocket it changes nothing; close() is called nowhere else and
\* at most once per WebSocket.
C9_TeardownClosesOnlyLiveTransport ==
    [][\A i \in 1..Len(ws) :
          LET torn == i \in tornDown' \ tornDown
              live == ws[i].readyState \in {"CONNECTING", "OPEN"}
          IN  /\ ws'[i].closeCalls # ws[i].closeCalls => (torn /\ live)
              /\ (torn /\ live) =>
                     /\ ws'[i].closeCalls = ws[i].closeCalls + 1
                     /\ ws'[i].readyState = "CLOSING"
              /\ (torn /\ ~live) => ws'[i] = ws[i]
              /\ ws'[i].closeCalls <= 1]_vars

\* A teardown has just run on a WebSocket the peer was already closing, and
\* issued no close(); an earlier teardown closed a live WebSocket.
C9_Witness ==
    /\ lastStep.kind \in {"effect", "cleanup"}
    /\ lastStep.ws \in tornDown
    /\ ws[lastStep.ws].readyState = "CLOSING"
    /\ ws[lastStep.ws].closeCalls = 0
    /\ \E j \in tornDown : ws[j].closeCalls = 1

\* C10: at most one WebSocket of the hook is CONNECTING or OPEN.
C10_AtMostOneLiveTransport ==
    Cardinality({i \in 1..Len(ws) : ws[i].readyState \in {"CONNECTING", "OPEN"}}) <= 1

\* The address changed while the first WebSocket was live: it was closed and
\* is still closing while the second one is open.
C10_Witness ==
    /\ Len(ws) >= 2
    /\ ws[Len(ws)].readyState = "OPEN"
    /\ ws[Len(ws) - 1].readyState = "CLOSING"
    /\ ws[Len(ws) - 1].closeCalls = 1

\* C11: telemetry is the decoded value of the most recent message that
\* carried a complete TelemetryData, or null when there was none.
C11_TelemetryIsLatestValidFrame == telemetry = lastValid

\* C12: in a session without an error event, connectionState changes only
\* from connecting to connected and from connected to disconnected.
C12_NormalSessionSequence ==
    [][(/\ phase = "mounted" /\ phase' = "mounted"
        /\ wsRef' = wsRef
        /\ ~sessionError'
        /\ connectionState' # connectionState)
          => <<connectionState, connectionState'>> \in
                 {<<"connecting", "connected">>, <<"connected", "disconnected">>}]_vars

C14_OpenClearsError ==
    [][(lastStep'.kind = "open" /\ phase = "mounted")
          => (connectionState' = "connected" /\ error' = NoError)]_vars

\* The hook's WebSocket opened after an error event of an earlier WebSocket
\* had set the error of this session: the error is gone.
C14_Witness ==
    /\ phase = "mounted"
    /\ lastStep = Step("open", wsRef, NoText)
    /\ sessionError
    /\ connectionState = "connected"
    /\ error = NoError

\* C15: every error event sets connectionState to error and error to the
\* one description "WebSocket connection error".
C15_ErrorSetsFixedMessage ==
    [][(lastStep'.kind = "error" /\ phase = "mounted")
          => (connectionState' = "error"
              /\ error' = "WebSocket connection error")]_vars

\* An error event has run on a WebSocket other than the hook's open one.
C15_Witness ==
    /\ phase = "mounted"
    /\ lastStep.kind = "error"
    /\ lastStep.ws # wsRef
    /\ ws[wsRef].readyState = "OPEN"
    /\ connectionState = "error"
    /\ error = ErrorMessage

\* C16: while the address does not change, from connectionState =
\* disconnected no WebSocket is constructed and connectionState does not
\* become connecting or connected.
C16_NoAutomaticReconnection ==
    [][(phase = "mounted" /\ connectionState = "disconnected" /\ url' = url)
          => (Len(ws') = Len(ws)
              /\ connectionState' \notin {"connecting", "connected"})]_vars

\* C20: telemetry changes only in a step taken while connectionState is
\* connected.
C20_TelemetryChangesOnlyWhenConnected ==
    [][telemetry' # telemetry => connectionState = "connected"]_vars

\* The field of HH:MM:SS that shows v: two digits, or all of v's digits.
Field(v) == IF v < 100 THEN <<v \div 10, v % 10>> ELSE Digits(v)

Rendered(f) == render.fn = f /\ render.done

\* C17: formatUptime of uptime_seconds with integer part t (the fraction cut
\* off) is HH:MM:SS with HH = t div 3600, MM = (t mod 3600) div 60 and
\* SS = t mod 60, each of at least two digits, MM and SS in 00..59; 3661.9
\* gives 01:01:01, 0 gives 00:00:00 and 86399 gives 23:59:59.
C17_FormatUptime ==
    Rendered("formatUptime") =>
        LET t == render.input \div 10
            out == render.output
        IN  /\ out = <<Field(t \div 3600), Field((t % 3600) \div 60), Field(t % 60)>>
            /\ Len(out[2]) = 2 /\ out[2][1] \in 0..5
            /\ Len(out[3]) = 2 /\ out[3][1] \in 0..5
            /\ render.input = 36619 => out = << <<0, 1>>, <<0, 1>>, <<0, 1>> >>
            /\ render.input = 0 => out = << <<0, 0>>, <<0, 0>>, <<0, 0>> >>
            /\ render.input = 863990 => out = << <<2, 3>>, <<5, 9>>, <<5, 9>> >>

\* 3661.9 seconds have been formatted as 01:01:01.
C17_Witness ==
    /\ Rendered("formatUptime")
    /\ render.input = 36619
    /\ render.output = << <<0, 1>>, <<0, 1>>, <<0, 1>> >>

\* The band a class of the battery text or of the battery bar shows.
BatteryBand(class) ==
    IF class \in {"text-green-400", "bg-green-500"} THEN "good"
    ELSE IF class \in {"text-yellow-400", "bg-yellow-500"} THEN "warning"
    ELSE IF class \in {"text-red-400", "bg-red-500"} THEN "critical"
    ELSE "none"

\* C18: the battery band of p in [0, 100] is good when p > 50, warning when
\* 20 < p <= 50 and critical when p <= 20 (50.0 warning, 50.1 good, 20.0
\* critical, 20.1 warning), and the text and the bar show the same band.
C18_BatteryBand ==
    Rendered("battery") =>
        LET p == render.input
            band == BatteryBand(render.output[1])
        IN  /\ p > 500 => band = "good"
            /\ (200 < p /\ p <= 500) => band = "warning"
            /\ p <= 200 => band = "critical"
            /\ p = 500 => band = "warning"
            /\ p = 501 => band = "good"
            /\ p = 200 => band = "critical"
            /\ p = 201 => band = "warning"
            /\ BatteryBand(render.output[2]) = band

\* 50.0 percent has been rendered: text and bar are in the warning band.
C18_Witness ==
    /\ Rendered("battery")
    /\ render.input = 500
    /\ render.output = <<"text-yellow-400", "bg-yellow-500">>

\* The band a class of the motor temperature shows.
TemperatureBand(class) ==
    IF class = "text-red-400" THEN "critical"
    ELSE IF class = "text-yellow-400" THEN "warning"
    ELSE IF class = "" THEN "normal"
    ELSE "none"

\* C19: the motor temperature band of T is critical when T > 60, warning
\* when 50 < T <= 60 and normal when T <= 50.
C19_MotorTemperatureBand ==
    Rendered("motorTemperature") =>
        LET T == render.input
            band == TemperatureBand(render.output[1])
        IN  /\ T > 600 => band = "critical"
            /\ (500 < T /\ T <= 600) => band = "warning"
            /\ T <= 500 => band = "normal"

\* 60.0 degrees have been rendered in the warning band.
C19_Witness ==
    /\ Rendered("motorTemperature")
    /\ render.input = 600
    /\ render.output = <<"text-yellow-400">>

\* C21: a non-null error implies connectionState is error or disconnected:
\* while connectionState is connecting or connected the error is null.
C21_ErrorOnlyWhenNotLive ==
    error # NoError => connectionState \in {"error", "disconnected"}

\* An error event has run and its close event after it: the description is
\* held in disconnected.
C21_Witness ==
    /\ error = ErrorMessage
    /\ connectionState = "disconnected"
    /\ lastStep.kind = "close"

\* C22: once telemetry is non-null it never becomes null again.
C22_TelemetryStaysNonNull ==
    [][telemetry # Null => telemetry' # Null]_vars

\* C23: a close event leaves error (and telemetry) unchanged; the close event
\* after an error event leaves connectionState = disconnected with the error
\* description held; a held description is cleared only by an open event or
\* by the effect running again.
C23_CloseKeepsError ==
    [][/\ lastStep'.kind = "close" => UNCHANGED <<error, telemetry>>
       /\ (/\ lastStep'.kind = "close" /\ phase = "mounted"
           /\ ws[lastStep'.ws].closePending)
              => (connectionState' = "disconnected" /\ error' = ErrorMessage)
       /\ (error # NoError /\ error' = NoError)
              => lastStep'.kind \in {"open", "effect"}]_vars

\* A torn-down WebSocket fired error and then close while the hook's
\* WebSocket is still connecting: disconnected, with the description held.
C23_Witness ==
    /\ phase = "mounted"
    /\ lastStep.kind = "close"
    /\ lastStep.ws \in tornDown
    /\ ws[wsRef].readyState = "CONNECTING"
    /\ connectionState = "disconnected"
    /\ error = ErrorMessage

====
